---------------------------- MODULE Spec2Model ----------------------------
(***************************************************************************)
(* State-machine model of src/assets/product-form.js:                      *)
(*   - ProductFormComponent  (mount, variant updates, submit, responses,   *)
(*                            message timers, detachment) -> Spec,         *)
(*                            SpecSubmission, SpecAvailability             *)
(*   - AddToCartComponent    (animateAddToCart and its two timers)         *)
(*                                     -> SpecATC, SpecATCLifecycle        *)
(*   - bezierPoint           (pure function)              -> SpecBezier    *)
(*   - FlyToCart             (the per-frame animation loop)                *)
(*                                                        -> SpecFly       *)
(* Every specification ranges over the same variables; the variables of    *)
(* the components a specification does not exercise stay at their initial  *)
(* values.                                                                 *)
(***************************************************************************)
EXTENDS Integers, Sequences, FiniteSets

VARIABLES
  \* ---- ProductFormComponent and the DOM it touches ----
  pc,            \* "constructed", then "connected", then "disconnected"
  refs,          \* which optional element references exist
  button,        \* the add-to-cart button: disabled attribute, style.display
  avaibleCheck,  \* the page-level '.indic-avaible-stock' element
  accelHidden,   \* 'hidden' attribute of the accelerated-checkout container
  textError,     \* the inline error element: 'hidden' class, child nodes
  liveRegion,    \* textContent of the live region
  variantId,     \* value of the variant-id input (a string)
  productId,     \* this.dataset.productId
  variantMedia,  \* data-product-variant-media of the button container
  productJson,   \* the embedded product-data script
  inflight,      \* cart-add requests sent and not yet answered
  sent,          \* number of cart-add requests sent so far
  timers,        \* pending setTimeout timers of the form
  timeout,       \* the #timeout field (0 = undefined, else a timer id)
  timerSeq,      \* last timer id handed out by setTimeout
  \* ---- history of the form, read by the properties only ----
  lastOutcome,   \* what handling the most recent response did
  lastUpdate,    \* the most recent availability update: who asked, for what
  errorAge,      \* ms since the last revealed error (-1: none being tracked)
  perfLog,       \* the calls of cartPerformance.measureFromEvent, in order
  lastEvent,     \* the most recent variant-change notification delivered
  \* ---- AddToCartComponent ----
  atcAdded,          \* button.classList.contains('atc-added')
  atcTimers,         \* pending timers of the component
  animationTimeout,  \* #animationTimeout (0 = undefined)
  cleanupTimeout,    \* #cleanupTimeout (0 = undefined)
  atcSeq,            \* last timer id handed out
  sinceCall,         \* ms since the most recent animateAddToCart (-1: never)
  removals,          \* class removals since the most recent call
  atcConnected,      \* FALSE once disconnectedCallback has run
  \* ---- bezierPoint ----
  bzIn,          \* the arguments: t = k / TDenom and four control points
  bzOut,         \* the returned point, or the not-yet-called marker
  \* ---- FlyToCart ----
  fly            \* the element: style, closure variables, frame requests

formVars == <<pc, refs, button, avaibleCheck, accelHidden, textError,
              liveRegion, variantId, productId, variantMedia, productJson,
              inflight, sent, timers, timeout, timerSeq,
              lastOutcome, lastUpdate, errorAge, perfLog, lastEvent>>
atcVars  == <<atcAdded, atcTimers, animationTimeout, cleanupTimeout, atcSeq,
              sinceCall, removals, atcConnected>>
bzVars   == <<bzIn, bzOut>>
flyVars  == <<fly>>
vars     == <<formVars, atcVars, bzVars, flyVars>>

-----------------------------------------------------------------------------
(* Bounds of the model *)

MaxRequests == 2    \* cart-add requests sent in one behaviour
MaxCalls    == 3    \* animateAddToCart calls in one behaviour
MaxCoord    == 1    \* control-point coordinates range over -1 .. MaxCoord
TDenom      == 2    \* t ranges over 0/TDenom .. TDenom/TDenom
MaxFrameTick == 20  \* animation frames arrive at ticks 1 .. MaxFrameTick

(* Program constants *)

ADD_TO_CART_TEXT_ANIMATION_DURATION == 2000
CLEANUP_DELAY       == 10
ERROR_CLEAR_DELAY   == 10000
SUCCESS_CLEAR_DELAY == 5000
duration            == 600    \* of the fly-to-cart animation, in ms

-----------------------------------------------------------------------------
(* Values *)

NoAttr == "<no attribute>"            \* getAttribute(...) === null
AttrValues == {NoAttr, "", "true"}    \* disabled absent, disabled, disabled="true"

DigitStr == <<"0", "1", "2", "3", "4", "5", "6", "7", "8", "9">>

\* Number-to-string conversion of a variant id (ids of the model are < 100).
NumberToString(n) ==
  IF n < 10 THEN DigitStr[n + 1]
  ELSE DigitStr[(n \div 10) + 1] \o DigitStr[(n % 10) + 1]

\* A variant record; present = FALSE stands for null / undefined, id = 0 for
\* a record without an id.
NullVariant == [present |-> FALSE, id |-> 0, available |-> FALSE, media |-> ""]

IsNull(variant) == ~variant.present

\* The variants list of the embedded product data when it is well formed.
ProductVariants ==
  << [present |-> TRUE, id |-> 1, available |-> TRUE,  media |-> ""],
     [present |-> TRUE, id |-> 2, available |-> FALSE, media |-> ""] >>

JsonKinds == {"absent", "unparsable", "noVariants", "ok"}

\* Resources a variant-change notification can carry.
Resources ==
  { NullVariant,
    [present |-> TRUE, id |-> 2, available |-> TRUE,  media |-> "img.jpg"],
    [present |-> TRUE, id |-> 2, available |-> TRUE,  media |-> ""],
    [present |-> TRUE, id |-> 2, available |-> FALSE, media |-> ""],
    [present |-> TRUE, id |-> 0, available |-> TRUE,  media |-> ""] }

\* The [ref="addToCartButton"] element of the notification's markup, if any.
NewButtons ==
  {[present |-> FALSE, disabled |-> NoAttr]} \cup
  [present : {TRUE}, disabled : AttrValues]

ProductIds == {"p1", "p2"}
Messages   == {"sold out"}
AddedText  == "added"

NoOutcome ==
  [kind |-> "none", message |-> "", cartError |-> "", cartAdd |-> "none",
   sections |-> FALSE, measured |-> FALSE]

-----------------------------------------------------------------------------
(* ProductFormComponent: availability *)

\* The part of the DOM #updateAvailabilityState writes.
CurrentDom ==
  [button |-> button, avaibleCheck |-> avaibleCheck, accelHidden |-> accelHidden]

\* #updateAvailabilityState(variant): the DOM it leaves.
UpdateAvailabilityState(variant) ==
  IF ~refs.addToCartButtonContainer \/ ~avaibleCheck.present
  THEN CurrentDom
  ELSE IF IsNull(variant) \/ variant.available = FALSE
       THEN [button       |-> [disabled |-> "true", display |-> "none"],
             avaibleCheck |-> [avaibleCheck EXCEPT !.avaible = FALSE,
                                                   !.nonavaible = TRUE],
             accelHidden  |-> IF refs.acceleratedCheckoutButtonContainer
                              THEN TRUE ELSE accelHidden]
       ELSE [button       |-> [disabled |-> NoAttr, display |-> "block"],
             avaibleCheck |-> [avaibleCheck EXCEPT !.avaible = TRUE,
                                                   !.nonavaible = FALSE],
             accelHidden  |-> IF refs.acceleratedCheckoutButtonContainer
                              THEN FALSE ELSE accelHidden]

\* productData.variants.find(v => v.id.toString() === currentVariantId)
RECURSIVE FindVariant(_, _)
FindVariant(variants, value) ==
  IF variants = << >> THEN NullVariant
  ELSE IF NumberToString(Head(variants).id) = value THEN Head(variants)
       ELSE FindVariant(Tail(variants), value)

\* Variant of #initializeWithCurrentVariant in which a failure to read the
\* data falls through to the update with no variant.
InitializeFallingThrough ==
  UpdateAvailabilityState(IF productJson = "ok"
                          THEN FindVariant(ProductVariants, variantId)
                          ELSE NullVariant)

\* #initializeWithCurrentVariant(): the DOM it leaves.  A missing script is
\* warned about; unparsable JSON and a missing variants list throw inside
\* the try block and are logged.
InitializeWithCurrentVariant ==
  IF productJson = "ok"
  THEN UpdateAvailabilityState(FindVariant(ProductVariants, variantId))
  ELSE CurrentDom

\* morph(currentAddToCartButton, newAddToCartButton): the button takes the
\* attributes of the replacement markup (which carries no inline style).
Morph(current, new) ==
  [disabled |-> new.disabled, display |-> ""]

AvailabilityOf(variant) ==
  IF IsNull(variant) \/ variant.available = FALSE THEN "unavailable" ELSE "available"

ConnectedCallback ==
  /\ pc = "constructed"
  /\ pc' = "connected"
  /\ LET dom == InitializeWithCurrentVariant IN
       /\ button' = dom.button
       /\ avaibleCheck' = dom.avaibleCheck
       /\ accelHidden' = dom.accelHidden
  /\ lastUpdate' = IF productJson = "ok"
                   THEN [by |-> "mount",
                         variant |-> AvailabilityOf(FindVariant(ProductVariants, variantId)),
                         morphed |-> FALSE]
                   ELSE lastUpdate
  /\ UNCHANGED <<refs, textError, liveRegion, variantId, productId, variantMedia,
                 productJson, inflight, sent, timers, timeout, timerSeq,
                 lastOutcome, errorAge, perfLog, lastEvent>>
  /\ UNCHANGED <<atcVars, bzVars, flyVars>>

\* detail.data.newProduct ("" when there is none) and detail.data.productId
EventProducts ==
  { [newProduct |-> "",   productId |-> "p1"],
    [newProduct |-> "",   productId |-> "p2"],
    [newProduct |-> "p2", productId |-> "p2"] }

VariantUpdateEvents ==
  { [newProduct |-> e.newProduct, productId |-> e.productId,
     resource |-> r, html |-> h] :
    e \in EventProducts, r \in Resources, h \in NewButtons }

\* The notifications of the submission flow: addressed to this product,
\* carrying a variant with or without an id and no featured media.
SubmitFlowEvents ==
  { event \in VariantUpdateEvents :
      /\ event.newProduct = "" /\ event.productId = "p1"
      /\ ~IsNull(event.resource) /\ event.resource.media = "" }

\* What the properties remember of a notification: the product it names and
\* the id of its resource.
Noted(event) ==
  [kind |-> "event", newProduct |-> event.newProduct,
   productId |-> event.productId,
   resource |-> [present |-> event.resource.present, id |-> event.resource.id]]

NoEvent ==
  [kind |-> "none", newProduct |-> "", productId |-> "",
   resource |-> [present |-> FALSE, id |-> 0]]

\* Variant of lines 305-309 that handles every notification.
IgnoresNoEvent(event) == FALSE

\* Lines 305-309: without a replacement product, a notification for another
\* product is ignored.
IgnoresEvent(event) ==
  event.newProduct = "" /\ event.productId # productId

\* #onVariantUpdate(event)
OnVariantUpdate(event) ==
  /\ pc = "connected"
  /\ lastEvent' = Noted(event)
  /\ IF IgnoresEvent(event)
     THEN UNCHANGED <<pc, refs, button, avaibleCheck, accelHidden, textError,
                      liveRegion, variantId, productId, variantMedia,
                      productJson, inflight, sent, timers, timeout, timerSeq,
                      lastOutcome, lastUpdate, errorAge, perfLog>>   \* line 308
     ELSE
       /\ productId' = IF event.newProduct # "" THEN event.newProduct ELSE productId
       /\ IF ~refs.addToCartButtonContainer
          THEN UNCHANGED <<button, avaibleCheck, accelHidden, variantId,
                           variantMedia, lastUpdate>>          \* line 316
          ELSE
            LET dom == UpdateAvailabilityState(event.resource) IN
              /\ button' = IF event.html.present
                           THEN Morph(dom.button, event.html) ELSE dom.button
              /\ avaibleCheck' = dom.avaibleCheck
              /\ accelHidden' = dom.accelHidden
              /\ lastUpdate' = [by |-> "notification",
                                variant |-> AvailabilityOf(event.resource),
                                morphed |-> event.html.present]
              \* line 324 reads resource.id: a null resource throws there
              /\ variantId' = IF IsNull(event.resource) THEN variantId
                              ELSE IF event.resource.id = 0 THEN ""
                              ELSE NumberToString(event.resource.id)
              /\ variantMedia' = IF ~IsNull(event.resource) /\ event.resource.media # ""
                                 THEN event.resource.media \o "&width=100"
                                 ELSE variantMedia
       /\ UNCHANGED <<pc, refs, textError, liveRegion, productJson, inflight,
                      sent, timers, timeout, timerSeq, lastOutcome, errorAge,
                      perfLog>>
  /\ UNCHANGED <<atcVars, bzVars, flyVars>>

-----------------------------------------------------------------------------
(* ProductFormComponent: submission *)

\* Lists of rendered cart-items components, each given by its
\* data-section-id ("" when it has none).
CartItemLists == { <<"s1", "s2">> }

\* Array.prototype.join(',')
RECURSIVE Join(_)
Join(ids) ==
  IF ids = << >> THEN ""
  ELSE IF Len(ids) = 1 THEN Head(ids)
       ELSE Head(ids) \o "," \o Join(Tail(ids))

\* The forEach of lines 198-203: the values appended under 'sections', given
\* the components still to visit and the ids pushed so far.
RECURSIVE AppendSections(_, _)
AppendSections(items, pushed) ==
  IF items = << >> THEN << >>
  ELSE LET now == IF Head(items) # "" THEN Append(pushed, Head(items)) ELSE pushed
       IN  <<Join(now)>> \o AppendSections(Tail(items), now)

\* The guard of line 189.
SubmitRefused ==
  refs.addToCartButtonContainer /\ button.disabled = "true"

ClearTimeout(pending, id) == {t \in pending : t.id # id}

\* handleSubmit(event), up to and including the fetch call.
HandleSubmit(cartItems) ==
  /\ pc = "connected"
  /\ timers' = IF timeout # 0 THEN ClearTimeout(timers, timeout) ELSE timers
  /\ IF SubmitRefused
     THEN UNCHANGED <<inflight, sent, errorAge>>
     ELSE /\ sent < MaxRequests
          /\ inflight' = Append(inflight,
                                [event |-> sent + 1,
                                 id |-> variantId,
                                 rendered |-> cartItems,
                                 sections |-> AppendSections(cartItems, << >>)])
          /\ sent' = sent + 1
          /\ errorAge' = -1
  /\ UNCHANGED <<pc, refs, button, avaibleCheck, accelHidden, textError,
                 liveRegion, variantId, productId, variantMedia, productJson,
                 timeout, timerSeq, lastOutcome, lastUpdate, perfLog, lastEvent>>
  /\ UNCHANGED <<atcVars, bzVars, flyVars>>

Responses ==
  {[kind |-> "error", message |-> m] : m \in Messages} \cup
  {[kind |-> "success", message |-> ""], [kind |-> "reject", message |-> ""]}

\* What the response callbacks write.
Handled(te, live, pending, field, seq, outcome) ==
  [textError |-> te, liveRegion |-> live, timers |-> pending, timeout |-> field,
   timerSeq |-> seq, outcome |-> outcome]

\* childNodes[2] is overwritten when it exists, else a text node is appended.
SetErrorText(nodes, message) ==
  IF Len(nodes) >= 3 THEN [nodes EXCEPT ![3] = message] ELSE Append(nodes, message)

\* The branch of lines 216-247 (response.status is set).
OnErrorResponse(request, message) ==
  IF ~refs.addToCartTextError
  THEN Handled(textError, liveRegion, timers, timeout, timerSeq,
               [NoOutcome EXCEPT !.kind = "error", !.message = message,
                                 !.cartError = message])
  ELSE Handled([hidden |-> FALSE,
                childNodes |-> SetErrorText(textError.childNodes, message)],
               message,
               timers \cup {[id |-> timerSeq + 1, kind |-> "error",
                             remaining |-> ERROR_CLEAR_DELAY]},
               timerSeq + 1, timerSeq + 1,
               [NoOutcome EXCEPT !.kind = "error", !.message = message,
                                 !.cartError = message, !.cartAdd = "failed"])

\* The branch of lines 248-278 (no response.status).
OnSuccessResponse(request) ==
  LET te == IF refs.addToCartTextError
            THEN [textError EXCEPT !.hidden = TRUE] ELSE textError
  IN  IF request.id = ""
      THEN \* 'Form ID is required' is thrown and logged by the catch
           Handled(te, liveRegion, timers, timeout, timerSeq,
                   [NoOutcome EXCEPT !.kind = "success"])
      ELSE IF refs.addToCartButtonContainer
           THEN Handled(te, AddedText,
                        timers \cup {[id |-> timerSeq + 1, kind |-> "success",
                                      remaining |-> SUCCESS_CLEAR_DELAY]},
                        timeout, timerSeq + 1,
                        [NoOutcome EXCEPT !.kind = "success", !.cartAdd = "ok",
                                          !.sections = TRUE])
           ELSE Handled(te, liveRegion, timers, timeout, timerSeq,
                        [NoOutcome EXCEPT !.kind = "success", !.cartAdd = "ok",
                                          !.sections = TRUE])

\* The catch of lines 280-282: fetch rejected, or the body was not JSON.
OnRejected(request) ==
  Handled(textError, liveRegion, timers, timeout, timerSeq,
          [NoOutcome EXCEPT !.kind = "reject"])

\* Variant of lines 283-285 that reports from the then-callback only.
MeasureUnlessRejected(log, request, outcome) ==
  IF outcome.kind = "reject" THEN log
  ELSE Append(log, [event |-> request.event, after |-> outcome.kind])

\* The finally of lines 283-285: measureFromEvent('add:user-action', event),
\* called once the then / catch callbacks have run.
MeasureFromEvent(log, request, outcome) ==
  Append(log, [event |-> request.event, after |-> outcome.kind])

\* The promise chain of lines 214-285 for the i-th request in flight.  It
\* runs whether or not the component is still attached.
HandleResponse(i, response) ==
  /\ pc # "constructed"
  /\ i \in 1 .. Len(inflight)
  /\ LET request == inflight[i]
         h == CASE response.kind = "error"   -> OnErrorResponse(request, response.message)
                [] response.kind = "success" -> OnSuccessResponse(request)
                [] response.kind = "reject"  -> OnRejected(request)
     IN  /\ textError' = h.textError
         /\ liveRegion' = h.liveRegion
         /\ timers' = h.timers
         /\ timeout' = h.timeout
         /\ timerSeq' = h.timerSeq
         /\ lastOutcome' = [h.outcome EXCEPT !.measured = TRUE]   \* finally
         /\ perfLog' = MeasureFromEvent(perfLog, request, h.outcome)
         /\ errorAge' = IF response.kind = "error" /\ refs.addToCartTextError
                        THEN 0 ELSE -1
  /\ inflight' = [k \in 1 .. Len(inflight) - 1 |->
                    IF k < i THEN inflight[k] ELSE inflight[k + 1]]
  /\ UNCHANGED <<pc, refs, button, avaibleCheck, accelHidden, variantId,
                 productId, variantMedia, productJson, sent, lastUpdate,
                 lastEvent>>
  /\ UNCHANGED <<atcVars, bzVars, flyVars>>

\* A pending timer of the form becomes due and its callback runs.
TimerFires(t) ==
  /\ t \in timers
  /\ t.remaining = 0
  /\ timers' = timers \ {t}
  /\ IF t.kind = "error"
     THEN /\ textError' = IF refs.addToCartTextError
                          THEN [textError EXCEPT !.hidden = TRUE] ELSE textError
          /\ liveRegion' = IF refs.addToCartTextError THEN "" ELSE liveRegion
     ELSE /\ liveRegion' = ""
          /\ UNCHANGED textError
  /\ UNCHANGED <<pc, refs, button, avaibleCheck, accelHidden, variantId,
                 productId, variantMedia, productJson, inflight, sent, timeout,
                 timerSeq, lastOutcome, lastUpdate, errorAge, perfLog, lastEvent>>
  /\ UNCHANGED <<atcVars, bzVars, flyVars>>

\* Time passes; it never passes the deadline of a pending timer.
AgeCap == ERROR_CLEAR_DELAY + SUCCESS_CLEAR_DELAY
FormSteps == {SUCCESS_CLEAR_DELAY}

Advance(d) ==
  /\ pc # "constructed"
  /\ timers # {} \/ (errorAge >= 0 /\ errorAge < AgeCap)
  /\ \A t \in timers : t.remaining >= d
  /\ timers' = {[t EXCEPT !.remaining = t.remaining - d] : t \in timers}
  /\ errorAge' = IF errorAge < 0 THEN -1
                 ELSE IF errorAge + d > AgeCap THEN AgeCap ELSE errorAge + d
  /\ UNCHANGED <<pc, refs, button, avaibleCheck, accelHidden, textError,
                 liveRegion, variantId, productId, variantMedia, productJson,
                 inflight, sent, timeout, timerSeq, lastOutcome, lastUpdate,
                 perfLog, lastEvent>>
  /\ UNCHANGED <<atcVars, bzVars, flyVars>>

\* disconnectedCallback() of ProductFormComponent: the listener registered in
\* connectedCallback is aborted.  Pending timers and requests are left as
\* they are.
DisconnectedCallback ==
  /\ pc = "connected"
  /\ pc' = "disconnected"
  /\ UNCHANGED <<refs, button, avaibleCheck, accelHidden, textError,
                 liveRegion, variantId, productId, variantMedia, productJson,
                 inflight, sent, timers, timeout, timerSeq, lastOutcome,
                 lastUpdate, errorAge, perfLog, lastEvent>>
  /\ UNCHANGED <<atcVars, bzVars, flyVars>>

-----------------------------------------------------------------------------
(* Initial states *)

NoButton == [disabled |-> NoAttr, display |-> ""]

AllRefs ==
  [addToCartButtonContainer |-> TRUE, addToCartTextError |-> TRUE,
   acceleratedCheckoutButtonContainer |-> TRUE]

\* The pages the form is mounted in: every optional element present, or one
\* of them missing.
Pages ==
  { [refs |-> AllRefs, indicator |-> TRUE],
    [refs |-> AllRefs, indicator |-> FALSE],
    [refs |-> [AllRefs EXCEPT !.addToCartButtonContainer = FALSE], indicator |-> TRUE],
    [refs |-> [AllRefs EXCEPT !.addToCartTextError = FALSE], indicator |-> TRUE],
    [refs |-> [AllRefs EXCEPT !.acceleratedCheckoutButtonContainer = FALSE],
     indicator |-> TRUE] }

FormInit ==
  /\ pc = "constructed"
  /\ \E page \in Pages :
       /\ refs = page.refs
       /\ avaibleCheck = [present |-> page.indicator, avaible |-> FALSE,
                          nonavaible |-> FALSE]
  /\ button \in IF refs.addToCartButtonContainer
                 THEN [disabled : AttrValues, display : {""}] ELSE {NoButton}
  /\ accelHidden = FALSE
  /\ textError \in IF refs.addToCartTextError
                    THEN [hidden : {TRUE}, childNodes : {<< >>, <<"svg", " ", "prior">>}]
                    ELSE {[hidden |-> TRUE, childNodes |-> << >>]}
  /\ liveRegion = ""
  /\ productJson \in {"absent", "ok"}
  /\ variantId \in IF productJson = "ok" THEN {"1", "3"} ELSE {"1"}
  /\ productId = "p1"
  /\ variantMedia = ""
  /\ inflight = << >>
  /\ sent = 0
  /\ timers = {}
  /\ timeout = 0
  /\ timerSeq = 0
  /\ lastOutcome = NoOutcome
  /\ lastUpdate = [by |-> "none", variant |-> "none", morphed |-> FALSE]
  /\ errorAge = -1
  /\ perfLog = << >>
  /\ lastEvent = NoEvent

\* Every combination of optional elements, every state of the data script
\* and of the selected id; nothing submitted.
FormInitAvailability ==
  /\ pc = "constructed"
  /\ refs \in [addToCartButtonContainer : BOOLEAN,
                addToCartTextError : {TRUE},
                acceleratedCheckoutButtonContainer : BOOLEAN]
  /\ avaibleCheck \in [present : BOOLEAN, avaible : {FALSE}, nonavaible : {FALSE}]
  /\ button \in IF refs.addToCartButtonContainer
                 THEN [disabled : AttrValues, display : {""}] ELSE {NoButton}
  /\ accelHidden = FALSE
  /\ textError = [hidden |-> TRUE, childNodes |-> << >>]
  /\ liveRegion = ""
  /\ productJson \in JsonKinds
  /\ variantId \in {"1", "2", "3"}
  /\ productId = "p1"
  /\ variantMedia = ""
  /\ inflight = << >>
  /\ sent = 0
  /\ timers = {}
  /\ timeout = 0
  /\ timerSeq = 0
  /\ lastOutcome = NoOutcome
  /\ lastUpdate = [by |-> "none", variant |-> "none", morphed |-> FALSE]
  /\ errorAge = -1
  /\ perfLog = << >>
  /\ lastEvent = NoEvent

FormIdle ==
  /\ pc = "constructed"
  /\ refs = AllRefs
  /\ button = NoButton
  /\ avaibleCheck = [present |-> TRUE, avaible |-> FALSE, nonavaible |-> FALSE]
  /\ accelHidden = FALSE
  /\ textError = [hidden |-> TRUE, childNodes |-> << >>]
  /\ liveRegion = ""
  /\ variantId = "1"
  /\ productId = "p1"
  /\ variantMedia = ""
  /\ productJson = "ok"
  /\ inflight = << >>
  /\ sent = 0
  /\ timers = {}
  /\ timeout = 0
  /\ timerSeq = 0
  /\ lastOutcome = NoOutcome
  /\ lastUpdate = [by |-> "none", variant |-> "none", morphed |-> FALSE]
  /\ errorAge = -1
  /\ perfLog = << >>
  /\ lastEvent = NoEvent

AtcIdle ==
  /\ atcAdded = FALSE
  /\ atcTimers = {}
  /\ animationTimeout = 0
  /\ cleanupTimeout = 0
  /\ atcSeq = 0
  /\ sinceCall = -1
  /\ removals = 0
  /\ atcConnected = TRUE

BzIdle ==
  /\ bzIn = [k |-> 0, p |-> [i \in 1 .. 4 |-> [x |-> 0, y |-> 0]]]
  /\ bzOut = [called |-> FALSE, x |-> 0, y |-> 0]

\* A fly-to-cart element that has been created and not attached.
NewFly ==
  [phase |-> "created", opacity |-> "", startTime |-> 0, currentTime |-> 0,
   firstFrame |-> 0, progress |-> 0, scale |-> -1, frameRequests |-> 0,
   fades |-> 0, removes |-> 0]

FlyIdle == fly = NewFly

Init == FormInit /\ AtcIdle /\ BzIdle /\ FlyIdle

Next ==
  \/ ConnectedCallback
  \/ \E event \in SubmitFlowEvents : OnVariantUpdate(event)
  \/ \E cartItems \in CartItemLists : HandleSubmit(cartItems)
  \/ \E i \in 1 .. MaxRequests, response \in Responses : HandleResponse(i, response)
  \/ \E t \in timers : TimerFires(t)
  \/ \E d \in FormSteps : Advance(d)
  \/ DisconnectedCallback

Spec == Init /\ [][Next]_vars

\* The submission flow alone: the page with every optional element, the page
\* without the button and the page without the inline error element; the
\* button enabled or disabled="true"; no product-data script.
FormInitSubmission ==
  /\ FormInit
  /\ avaibleCheck.present
  /\ refs.acceleratedCheckoutButtonContainer
  /\ button.disabled # ""
  /\ textError.childNodes = << >>
  /\ productJson = "absent"

InitSubmission == FormInitSubmission /\ AtcIdle /\ BzIdle /\ FlyIdle

SpecSubmission == InitSubmission /\ [][Next]_vars

\* Mount and variant-change notifications alone, over every page.
InitAvailability == FormInitAvailability /\ AtcIdle /\ BzIdle /\ FlyIdle

NextAvailability ==
  \/ ConnectedCallback
  \/ \E event \in VariantUpdateEvents : OnVariantUpdate(event)

SpecAvailability == InitAvailability /\ [][NextAvailability]_vars

-----------------------------------------------------------------------------
(* AddToCartComponent *)

\* Variant of lines 83-84 that forgets the cleanup timer.
CancelAnimationTimerOnly ==
  ClearTimeout(atcTimers, animationTimeout)

\* Lines 83-84: both timer fields are cleared when set (clearing the id of a
\* timer that already ran changes nothing).
CancelPendingTimers ==
  ClearTimeout(ClearTimeout(atcTimers, animationTimeout), cleanupTimeout)

\* animateAddToCart().  The n-th call's animation timer gets id 2n - 1 and
\* the cleanup timer it starts gets id 2n.
AnimateAddToCart ==
  /\ atcConnected
  /\ atcSeq < MaxCalls
  /\ atcAdded' = TRUE
  /\ atcTimers' = CancelPendingTimers \cup
                    {[id |-> 2 * atcSeq + 1, kind |-> "animation",
                      remaining |-> ADD_TO_CART_TEXT_ANIMATION_DURATION]}
  /\ animationTimeout' = 2 * atcSeq + 1
  /\ atcSeq' = atcSeq + 1
  /\ sinceCall' = 0
  /\ removals' = 0
  /\ UNCHANGED <<cleanupTimeout, atcConnected, formVars, bzVars, flyVars>>

\* The callback of lines 90-94 runs: it starts the cleanup timer.
AnimationTimerFires(t) ==
  /\ t \in atcTimers
  /\ t.kind = "animation"
  /\ t.remaining = 0
  /\ atcTimers' = (atcTimers \ {t}) \cup
                    {[id |-> t.id + 1, kind |-> "cleanup", remaining |-> CLEANUP_DELAY]}
  /\ cleanupTimeout' = t.id + 1
  /\ UNCHANGED <<atcAdded, animationTimeout, atcSeq, sinceCall, removals,
                 atcConnected, formVars, bzVars, flyVars>>

\* The callback of lines 91-93 runs: it removes the class.
CleanupTimerFires(t) ==
  /\ t \in atcTimers
  /\ t.kind = "cleanup"
  /\ t.remaining = 0
  /\ atcTimers' = atcTimers \ {t}
  /\ atcAdded' = FALSE
  /\ removals' = removals + 1
  /\ UNCHANGED <<animationTimeout, cleanupTimeout, atcSeq, sinceCall,
                 atcConnected, formVars, bzVars, flyVars>>

RemovalTime == ADD_TO_CART_TEXT_ANIMATION_DURATION + CLEANUP_DELAY
CallAgeCap  == RemovalTime + CLEANUP_DELAY
AtcSteps    == {CLEANUP_DELAY, ADD_TO_CART_TEXT_ANIMATION_DURATION \div 2}

\* Time passes; it never passes the deadline of a pending timer.
AtcAdvance(d) ==
  /\ sinceCall >= 0
  /\ atcTimers # {} \/ sinceCall < CallAgeCap
  /\ \A t \in atcTimers : t.remaining >= d
  /\ atcTimers' = {[t EXCEPT !.remaining = t.remaining - d] : t \in atcTimers}
  /\ sinceCall' = IF sinceCall + d > CallAgeCap THEN CallAgeCap ELSE sinceCall + d
  /\ UNCHANGED <<atcAdded, animationTimeout, cleanupTimeout, atcSeq, removals,
                 atcConnected, formVars, bzVars, flyVars>>

AtcInit ==
  /\ atcAdded \in BOOLEAN
  /\ atcTimers = {}
  /\ animationTimeout = 0
  /\ cleanupTimeout = 0
  /\ atcSeq = 0
  /\ sinceCall = -1
  /\ removals = 0
  /\ atcConnected = TRUE

InitATC == FormIdle /\ AtcInit /\ BzIdle /\ FlyIdle

NextATC ==
  \/ AnimateAddToCart
  \/ \E t \in atcTimers : AnimationTimerFires(t)
  \/ \E t \in atcTimers : CleanupTimerFires(t)
  \/ \E d \in AtcSteps : AtcAdvance(d)

SpecATC == InitATC /\ [][NextATC]_vars

\* disconnectedCallback() of AddToCartComponent, lines 31-37: both timer
\* fields are cleared when set.
AtcDisconnectedCallback ==
  /\ atcConnected
  /\ atcConnected' = FALSE
  /\ atcTimers' = CancelPendingTimers
  /\ UNCHANGED <<atcAdded, animationTimeout, cleanupTimeout, atcSeq, sinceCall,
                 removals, formVars, bzVars, flyVars>>

\* The button component over its whole life: calls, timers, detachment.
NextATCLifecycle ==
  \/ NextATC
  \/ AtcDisconnectedCallback

SpecATCLifecycle == InitATC /\ [][NextATCLifecycle]_vars

-----------------------------------------------------------------------------
(* bezierPoint *)

Coords == (0 - 1) .. MaxCoord
Points == [x : Coords, y : Coords]

Cube(n) == n * n * n

\* Variant of bezierPoint whose cubic coefficient leaves out the quadratic one.
bezierPointDroppingB(k, p0, p1, p2, p3) ==
  LET cX == 3 * (p1.x - p0.x)
      bX == 3 * (p2.x - p1.x) - cX
      aX == p3.x - p0.x - cX
      cY == 3 * (p1.y - p0.y)
      bY == 3 * (p2.y - p1.y) - cY
      aY == p3.y - p0.y - cY
  IN  [x |-> aX * Cube(k) + bX * k * k * TDenom + cX * k * TDenom * TDenom
             + p0.x * Cube(TDenom),
       y |-> aY * Cube(k) + bY * k * k * TDenom + cY * k * TDenom * TDenom
             + p0.y * Cube(TDenom)]

\* bezierPoint(t, p0, p1, p2, p3) at t = k / TDenom.  The result is exact:
\* both coordinates are returned multiplied by TDenom^3.
bezierPoint(k, p0, p1, p2, p3) ==
  LET cX == 3 * (p1.x - p0.x)
      bX == 3 * (p2.x - p1.x) - cX
      aX == p3.x - p0.x - cX - bX
      cY == 3 * (p1.y - p0.y)
      bY == 3 * (p2.y - p1.y) - cY
      aY == p3.y - p0.y - cY - bY
  IN  [x |-> aX * Cube(k) + bX * k * k * TDenom + cX * k * TDenom * TDenom
             + p0.x * Cube(TDenom),
       y |-> aY * Cube(k) + bY * k * k * TDenom + cY * k * TDenom * TDenom
             + p0.y * Cube(TDenom)]

CallBezierPoint ==
  /\ ~bzOut.called
  /\ LET r == bezierPoint(bzIn.k, bzIn.p[1], bzIn.p[2], bzIn.p[3], bzIn.p[4])
     IN  bzOut' = [called |-> TRUE, x |-> r.x, y |-> r.y]
  /\ UNCHANGED <<bzIn, formVars, atcVars, flyVars>>

BzInit ==
  /\ bzIn \in [k : 0 .. TDenom, p : [1 .. 4 -> Points]]
  /\ bzOut = [called |-> FALSE, x |-> 0, y |-> 0]

InitBezier == FormIdle /\ AtcIdle /\ BzInit /\ FlyIdle

NextBezier == CallBezierPoint

SpecBezier == InitBezier /\ [][NextBezier]_vars

-----------------------------------------------------------------------------
(* FlyToCart *)

\* Timestamps handed to the frame callback: positive, in ms, one tick apart
\* at most.
FrameTimes == {50 * n : n \in 1 .. MaxFrameTick}

\* The first frame arrives while a whole animation still fits in FrameTimes.
LastStart == 50 * MaxFrameTick - duration

\* Line 381: Math.min(elapsed / duration, 1), as a numerator over duration.
FrameProgress(elapsed) ==
  IF elapsed < duration THEN elapsed ELSE duration

\* Variant of line 388 that subtracts the whole progress.
FrameScaleWithoutHalf(progress) == 2 * duration - 2 * progress

\* Line 388: 1 - progress * 0.5, as a numerator over 2 * duration.
FrameScale(progress) == 2 * duration - progress

\* connectedCallback() -> #animate(): the element is made opaque, placed at
\* the start point and the first frame is requested.
FlyConnectedCallback ==
  /\ fly.phase = "created"
  /\ fly' = [fly EXCEPT !.phase = "running", !.opacity = "1",
                        !.frameRequests = 1]
  /\ UNCHANGED <<formVars, atcVars, bzVars>>

\* Variant of lines 391-396 that asks for another frame in both branches.
AfterFrameAlwaysRequesting(f, progress) ==
  IF progress < duration
  THEN [f EXCEPT !.frameRequests = f.frameRequests + 1]
  ELSE [f EXCEPT !.frameRequests = f.frameRequests + 1,
                 !.opacity = "0", !.phase = "fading", !.fades = f.fades + 1]

\* Lines 391-396: another frame while progress < 1, else the fade-out and
\* the removal callback.
AfterFrame(f, progress) ==
  IF progress < duration
  THEN [f EXCEPT !.frameRequests = f.frameRequests + 1]
  ELSE [f EXCEPT !.opacity = "0", !.phase = "fading", !.fades = f.fades + 1]

\* The frame callback animate(currentTime) of lines 378-397 runs for one
\* pending request.  startTime 0 stands for null: '!startTime' reads both
\* alike.  The element's position is bezierPoint at the same progress.
Frame(currentTime) ==
  /\ fly.frameRequests > 0
  /\ currentTime > fly.currentTime
  /\ fly.currentTime = 0 => currentTime <= LastStart
  /\ LET startTime == IF fly.startTime = 0 THEN currentTime ELSE fly.startTime
         elapsed   == currentTime - startTime
         progress  == FrameProgress(elapsed)
         ran       == [fly EXCEPT !.startTime = startTime,
                                  !.currentTime = currentTime,
                                  !.firstFrame = IF fly.firstFrame = 0
                                                 THEN currentTime ELSE fly.firstFrame,
                                  !.progress = progress,
                                  !.scale = FrameScale(progress),
                                  !.frameRequests = fly.frameRequests - 1]
     IN  fly' = AfterFrame(ran, progress)
  /\ UNCHANGED <<formVars, atcVars, bzVars>>

\* onAnimationEnd(this, () => this.remove()): the fade ends and the callback
\* removes the element.
OnAnimationEnd ==
  /\ fly.phase = "fading"
  /\ fly.removes < fly.fades
  /\ fly' = [fly EXCEPT !.phase = "removed", !.removes = fly.removes + 1]
  /\ UNCHANGED <<formVars, atcVars, bzVars>>

InitFly == FormIdle /\ AtcIdle /\ BzIdle /\ FlyIdle

NextFly ==
  \/ FlyConnectedCallback
  \/ \E currentTime \in FrameTimes : Frame(currentTime)
  \/ OnAnimationEnd

\* Frames keep arriving while one is requested, and a started fade ends.
SpecFly == InitFly /\ [][NextFly]_vars /\ WF_vars(NextFly)

-----------------------------------------------------------------------------
(* Properties *)

HasButton == refs.addToCartButtonContainer
MarkedDisabled == button.disabled # NoAttr
Hidden == button.display = "none"
ResponseHandled == Len(inflight') < Len(inflight)

\* C1: while the add-to-cart button carries a disabled attribute, no step
\* sends a cart-add request.
C1_DisabledNeverSends ==
  [][(HasButton /\ MarkedDisabled) => sent' = sent]_vars

\* C2: once a variant-change notification for this product has been handled,
\* the button is enabled and visible exactly when the notification's variant
\* is available.
C2_ButtonMatchesLastNotification ==
  (lastUpdate.by = "notification" /\ HasButton) =>
    ((~MarkedDisabled /\ ~Hidden) <=> lastUpdate.variant = "available")

\* C3: the availability transition is decided by the variant alone: right
\* after it (no markup morphed in since) on a form that has the button, an
\* unavailable or missing variant has left the button disabled and hidden,
\* the indicator marked not-available and the accelerated checkout hidden;
\* an available variant has left the inverse.
C3_TransitionDecidedByVariant ==
  (lastUpdate.by # "none" /\ ~lastUpdate.morphed /\ HasButton) =>
    IF lastUpdate.variant = "unavailable"
    THEN /\ MarkedDisabled /\ Hidden
         /\ avaibleCheck.present => (avaibleCheck.nonavaible /\ ~avaibleCheck.avaible)
         /\ refs.acceleratedCheckoutButtonContainer => accelHidden
    ELSE /\ ~MarkedDisabled /\ ~Hidden
         /\ avaibleCheck.present => (avaibleCheck.avaible /\ ~avaibleCheck.nonavaible)
         /\ refs.acceleratedCheckoutButtonContainer => ~accelHidden

Mounting == pc = "constructed" /\ pc' = "connected"
NoCurrentVariant == IsNull(FindVariant(ProductVariants, variantId))

\* C4 as stated: mounting with the data script missing, with no variant entry
\* for the selected id, with malformed data, or without a stock indicator,
\* changes nothing.
C4_MountIsNoOpAsStated ==
  [][(Mounting /\ (productJson # "ok" \/ NoCurrentVariant \/ ~avaibleCheck.present))
       => UNCHANGED <<button, avaibleCheck, accelHidden>>]_vars

\* C4 as amended: mounting with the data script missing, with malformed data
\* or without a stock indicator changes nothing; with well-formed data that
\* has no entry for the selected id (button and indicator present) it puts
\* the form in the unavailable state.
C4_MountIsNoOpAmended ==
  [][Mounting =>
       /\ (productJson # "ok" \/ ~avaibleCheck.present)
             => UNCHANGED <<button, avaibleCheck, accelHidden>>
       /\ (productJson = "ok" /\ NoCurrentVariant /\ HasButton /\ avaibleCheck.present)
             => /\ button' = [disabled |-> "true", display |-> "none"]
                /\ avaibleCheck'.nonavaible /\ ~avaibleCheck'.avaible
                /\ refs.acceleratedCheckoutButtonContainer => accelHidden'
    ]_vars

\* C4 witness: a form mounted with unparsable data: button and indicator exist and are
\* as the markup had them.
C4_Witness ==
  /\ pc = "connected"
  /\ productJson = "unparsable"
  /\ HasButton /\ avaibleCheck.present
  /\ lastUpdate.by = "none"
  /\ button = [disabled |-> "", display |-> ""]
  /\ ~avaibleCheck.avaible /\ ~avaibleCheck.nonavaible

\* C5: handling a response with an error status reveals the inline error
\* with the server message, sets the live region to it, emits a cart-error
\* notification and a failed cart-add notification.
C5_ErrorResponseDoesAllFour ==
  [][(ResponseHandled /\ lastOutcome'.kind = "error") =>
       /\ refs.addToCartTextError =>
             /\ ~textError'.hidden
             /\ \E n \in DOMAIN textError'.childNodes :
                   textError'.childNodes[n] = lastOutcome'.message
       /\ liveRegion' = lastOutcome'.message
       /\ lastOutcome'.cartError = lastOutcome'.message
       /\ lastOutcome'.cartAdd = "failed"
    ]_vars

\* C6: more than 10000 ms after an error was revealed, with no request sent
\* and no other response handled since, the message is hidden and the live
\* region is empty.
C6_ErrorAutoCleared ==
  errorAge > ERROR_CLEAR_DELAY => (textError.hidden /\ liveRegion = "")

\* C7: handling a response without an error status hides the inline error,
\* sets the live region to the confirmation phrase and emits a cart-add
\* notification carrying the section markup.
C7_SuccessResponseDoesAllThree ==
  [][(ResponseHandled /\ lastOutcome'.kind = "success") =>
       /\ refs.addToCartTextError => textError'.hidden
       /\ liveRegion' = AddedText
       /\ lastOutcome'.cartAdd = "ok" /\ lastOutcome'.sections
    ]_vars

\* C8: a request that fails at the network level is surfaced like a cart
\* error: inline error shown, live region set, error notification emitted.
C8_NetworkFailureSurfaced ==
  [][(ResponseHandled /\ lastOutcome'.kind = "reject") =>
       /\ refs.addToCartTextError => ~textError'.hidden
       /\ liveRegion' # ""
       /\ lastOutcome'.cartError # ""
    ]_vars

\* C9: at most one timer of the button component is pending; the class is
\* set from a call until 2010 ms after the most recent call and has then
\* been removed exactly once.
C9_SingleTimerAndOneRemoval ==
  /\ Cardinality(atcTimers) <= 1
  /\ removals <= 1
  /\ (sinceCall >= 0 /\ sinceCall < RemovalTime) => (atcAdded /\ removals = 0)
  /\ sinceCall > RemovalTime => (~atcAdded /\ removals = 1)

\* C9 witness: a second call came while the first call's animation timer was pending
\* (no animation timer has run yet), and time has passed since.
C9_Witness ==
  /\ atcSeq = 2
  /\ cleanupTimeout = 0
  /\ Cardinality(atcTimers) = 1
  /\ sinceCall > 0

Scaled(point) == [x |-> point.x * Cube(TDenom), y |-> point.y * Cube(TDenom)]

\* (1-t)^3 p0 + 3 (1-t)^2 t p1 + 3 (1-t) t^2 p2 + t^3 p3, times TDenom^3
Bernstein(k, c0, c1, c2, c3) ==
  Cube(TDenom - k) * c0 + 3 * (TDenom - k) * (TDenom - k) * k * c1
    + 3 * (TDenom - k) * k * k * c2 + Cube(k) * c3

\* C10: bezierPoint returns the point of the cubic Bezier curve at t, so
\* exactly p0 at t = 0 and exactly p3 at t = 1.
C10_BezierEndpoints ==
  bzOut.called =>
    LET p == bzIn.p
        out == [x |-> bzOut.x, y |-> bzOut.y]
    IN  /\ bzIn.k = 0 => out = Scaled(p[1])
        /\ bzIn.k = TDenom => out = Scaled(p[4])
        /\ out.x = Bernstein(bzIn.k, p[1].x, p[2].x, p[3].x, p[4].x)
        /\ out.y = Bernstein(bzIn.k, p[1].y, p[2].y, p[3].y, p[4].y)

\* C10 witness: bezierPoint was called at t = 1 on four distinct control
\* points.
C10_Witness ==
  /\ bzOut.called
  /\ bzIn.k = TDenom
  /\ Cardinality({bzIn.p[i] : i \in 1 .. 4}) = 4
  /\ bzIn.p[1].x # bzIn.p[4].x

FlyFinished == fly.phase \in {"fading", "removed"}

\* C11: on every frame not earlier than the first one, progress is the time
\* since the first frame over 600 ms, clamped to 1, and the scale written is
\* exactly 1 - progress / 2: 1.0 on the first frame, 0.5 on the final frame,
\* and always within [0.5, 1.0].  (progress is held over duration, scale
\* over 2 * duration.)
C11_ScaleFollowsProgress ==
  (fly.currentTime > 0 /\ fly.currentTime >= fly.firstFrame) =>
    LET elapsed == fly.currentTime - fly.firstFrame
    IN  /\ fly.progress = IF elapsed >= duration THEN duration ELSE elapsed
        /\ 2 * duration - fly.scale = fly.progress
        /\ fly.currentTime = fly.firstFrame => fly.scale = 2 * duration
        /\ FlyFinished => fly.scale = duration
        /\ fly.scale >= duration /\ fly.scale <= 2 * duration

\* C11 witness: the final frame came more than 600 ms after the first one,
\* so the clamp acted, and the scale written is 0.5.
C11_Witness ==
  /\ fly.phase = "fading"
  /\ fly.currentTime - fly.firstFrame > duration
  /\ fly.scale = duration

FlyCountsAgree ==
  /\ fly.frameRequests = IF fly.phase = "running" THEN 1 ELSE 0
  /\ FlyFinished <=> (fly.currentTime > 0 /\ fly.progress = duration)
  /\ fly.fades = IF FlyFinished THEN 1 ELSE 0
  /\ fly.removes = IF fly.phase = "removed" THEN 1 ELSE 0

\* C15: once started, exactly one frame is pending while progress < 1; with
\* frames arriving at increasing timestamps the animation reaches progress 1,
\* after which no frame is pending, the fade-out has been triggered once and
\* the element is removed once.
C15_AnimationTerminates ==
  /\ []FlyCountsAgree
  /\ (fly.phase = "running") ~> (fly.phase = "removed" /\ fly.progress = duration)

\* C15 witness: the element was removed once, after a final frame that came
\* exactly 600 ms after the first one, with no frame pending.
C15_Witness ==
  /\ fly.phase = "removed"
  /\ fly.removes = 1
  /\ fly.frameRequests = 0
  /\ fly.currentTime - fly.firstFrame = duration

\* C12: after disconnectedCallback of either component, no timer of that
\* component runs its callback.
C12_NoTimerFiresAfterTeardown ==
  [][/\ pc = "disconnected" =>
          ~(\E t \in timers : t.remaining = 0 /\ t \notin timers')
     /\ ~atcConnected =>
          ~(\E t \in atcTimers : t.remaining = 0 /\ t \notin atcTimers')]_vars

\* The button component's half of C12: detaching it leaves no timer pending.
AtcTeardownClearsTimers == ~atcConnected => atcTimers = {}

\* C13: at most one auto-clear timer of the form is pending at any time.
C13_OneAutoClearTimer == Cardinality(timers) <= 1

\* C14: at most one cart-add request of the form is in flight at any time.
C14_OneRequestInFlight == Len(inflight) <= 1

InFlightEvents == {inflight[i].event : i \in 1 .. Len(inflight)}
ReportsOf(e) == {k \in 1 .. Len(perfLog) : perfLog[k].event = e}

\* C16: every submit that sent a request is reported exactly once, after its
\* outcome (error, success, a throw while handling, or a failed request) has
\* been handled, and not before; nothing else is reported, so a refused
\* submit reports nothing.
C16_OneReportPerRequest ==
  /\ Len(perfLog) + Len(inflight) = sent
  /\ \A e \in 1 .. sent :
       Cardinality(ReportsOf(e)) = IF e \in InFlightEvents THEN 0 ELSE 1
  /\ \A k \in 1 .. Len(perfLog) :
       perfLog[k].after \in {"error", "success", "reject"}

\* C16 witness: two requests were sent and answered, the first by a failed
\* request and the second by a success whose handling threw on the empty
\* variant id; both are reported.
C16_Witness ==
  /\ sent = 2
  /\ inflight = << >>
  /\ Len(perfLog) = 2
  /\ perfLog[1].after = "reject"
  /\ perfLog[2].after = "success"
  /\ lastOutcome.kind = "success" /\ lastOutcome.cartAdd = "none"

RenderedIds(request) == SelectSeq(request.rendered, LAMBDA id : id # "")

\* C17: the body of every request carries the ids of the rendered cart-items
\* components once: a single 'sections' value listing all of them (none when
\* there is no id to send).
C17_SectionsSentOnce ==
  \A i \in 1 .. Len(inflight) :
    LET ids == RenderedIds(inflight[i])
    IN  /\ Len(inflight[i].sections) <= 1
        /\ ids # << >> => inflight[i].sections = <<Join(ids)>>

EventHandled ==
  /\ lastEvent.kind = "event"
  /\ lastEvent.newProduct # "" \/ lastEvent.productId = productId

\* C18: after a notification for this product (or one carrying a replacement
\* product) has been handled, the variant-id field holds the id of the
\* notification's resource, and is empty when the resource is null or has no
\* id; with or without the button container.
C18_FieldHoldsNotifiedVariant ==
  EventHandled =>
    variantId = IF ~lastEvent.resource.present \/ lastEvent.resource.id = 0
                THEN ""
                ELSE NumberToString(lastEvent.resource.id)

ForeignEventDelivered ==
  /\ lastEvent' # lastEvent
  /\ lastEvent'.newProduct = ""
  /\ lastEvent'.productId # productId

\* C19: a notification without a replacement product whose product id is not
\* this form's changes nothing: product id, variant-id field, button,
\* indicator marks, accelerated-checkout visibility and stored variant media
\* stay as they were.
C19_ForeignEventChangesNothing ==
  [][ForeignEventDelivered =>
       UNCHANGED <<productId, variantId, button, avaibleCheck, accelHidden,
                   variantMedia, textError, liveRegion>>]_vars

\* C19 witness: a form that an earlier notification had put in the
\* unavailable state with variant 2 selected has received a notification for
\* another product.
C19_Witness ==
  /\ lastEvent.kind = "event"
  /\ lastEvent.newProduct = "" /\ lastEvent.productId # productId
  /\ lastUpdate.by = "notification"
  /\ HasButton /\ MarkedDisabled /\ Hidden
  /\ variantId = "2"
=============================================================================
